---- MODULE Spec2Model ----
(***************************************************************************)
(* InfinityEventsMCPServer (src/infinity_mcp.py): the token cache and the  *)
(* submit -> poll -> drain -> save workflow of get_all_logs, against a     *)
(* remote API whose answers are chosen nondeterministically.               *)
(*                                                                         *)
(* One action is one step of the get_all_logs coroutine between two        *)
(* network (or file) calls.  Python's None is the empty sequence, a value  *)
(* v that may be None is <<v>>.  Time is in whole seconds.                 *)
(***************************************************************************)
EXTENDS Integers, Sequences, FiniteSets, TLC

\* ------------------------------------------------------------- constants
\* max_attempts = 30                                   (get_all_logs)
max_attempts == 30
\* await asyncio.sleep(2)                              (get_all_logs)
SleepSeconds == 2
\* self.token_expires_at = time.time() + (30 * 60)     (authenticate)
TokenLifetime == 30 * 60
\* all_records[:5]                                     (get_all_logs)
SampleSize == 5

\* ---------------------------------------------------------------- bounds
\* The remote task lists at most MaxTop top-level page tokens.
MaxTop == 2
\* A shard has at most MaxChain chained pages after its top-level page.
MaxChain == 2
\* Instants (seconds) at which a tool call reaches the server.
ArrivalTimes == {0, 1781, 1801}

None == <<>>
Some(v) == <<v>>

VARIABLES
    \* ---- InfinityEventsMCPServer fields
    has_credentials,   \* bool(self.client_id and self.access_key)
    auth_token,        \* self.auth_token: None or <<token>>
    token_expires_at,  \* self.token_expires_at: None or <<seconds>>
    \* ---- the clock, time.time()
    now,
    \* ---- the get_all_logs coroutine
    pc,                \* "idle", "search", "poll", "top", "chain", "save", "done"
    save_locally,
    task_id,           \* None or <<taskId>>
    attempt,
    page_tokens,
    idx,               \* position of the for loop in page_tokens (1-based)
    next_token,        \* None or <<token>>
    all_records,
    total_records,
    result,            \* what get_all_logs returned
    \* ---- the remote API
    srvIssued,         \* number of bearer tokens issued so far
    srvPageTokens,     \* pageTokens of the latest status response
    srvFresh,          \* highest page token handed out for the task
    \* ---- history of the current run
    nSubmit, nStatus, nRetrieve, nFiles,
    nPending,          \* status responses that said Pending or Processing
    ready,             \* a status response said Ready or Completed
    lastSubmit,        \* the response to the submit call: None or <<code>>
    issuedTask,        \* the taskId the submit call was answered with: None or <<taskId>>
    authFailure,       \* the authenticate() that failed: None or <<[called, resp]>>
    statusNote,        \* the status answer that ended the run: None or <<[code, errors]>>
    acquiredAt,        \* the instant the cached token was acquired: None or <<t>>
    cur,               \* the coroutine that is running
    parked,            \* the frame of the coroutine suspended in asyncio.sleep
    query,             \* the text given to parse_query_to_filter, a sequence of characters
    translated,        \* what parse_query_to_filter returned: None or <<[app, filter]>>
    loop,              \* main(): "running", "ended" (end of input) or "crashed"
    initialized,       \* self.initialized
    nLines,            \* lines read from standard input
    lastLine,          \* the line read last: None or <<line>>
    lastOut,           \* what the last iteration printed: None or <<response>>
    pending,           \* the request main() awaits handle_request for: None or <<n>>
    printed,           \* the numbers of the requests whose response was printed
    timeframe_text,    \* the text given to parse_timeframe, a sequence of characters
    clock,             \* datetime.utcnow() at that call
    window,            \* what parse_timeframe did: None or <<window or raise>>
    lastReq,           \* the latest request that carried the bearer token
    log,               \* the batches retrieved successfully, in order
    lastResp           \* the latest retrieve call: None or <<[level, code]>>

\* The local variables of one get_all_logs invocation, with its history.
frameVars == <<pc, save_locally, task_id, attempt, page_tokens, idx, next_token,
               all_records, total_records, result, srvPageTokens, srvFresh, nSubmit,
               nStatus, nRetrieve, nFiles, nPending, ready, lastSubmit, issuedTask,
               authFailure, statusNote, lastReq, log, lastResp>>

\* The coroutines of the event loop.
concVars == <<cur, parked>>

\* The argument and the result of the query translation.
queryVars == <<query, translated>>

\* The loop of main() and the server object's handshake flag.
loopVars == <<loop, initialized, nLines, lastLine, lastOut, pending, printed>>

\* The argument, the clock and the result of the timeframe translation.
timeVars == <<timeframe_text, clock, window>>

\* What one get_all_logs invocation and a credential check leave alone.
otherVars == <<queryVars, loopVars, timeVars>>

serverVars == <<has_credentials, auth_token, token_expires_at, srvIssued, acquiredAt>>
drainVars == <<page_tokens, idx, next_token, all_records, total_records,
               srvPageTokens, srvFresh, log, lastResp>>

\* ------------------------------------------------------- returned values
\* A returned dict; the keys a given return does not set hold their zero.
Dict(success, error) ==
    [ret |-> "dict", success |-> success, error |-> error, errors |-> <<>>,
     taskId |-> FALSE, saved |-> FALSE, total_records |-> 0,
     sample_records |-> <<>>]
Err(error) == Dict(FALSE, error)
\* A function that ends without a return statement returns None.
PyNone == [Dict(FALSE, "") EXCEPT !.ret = "None"]
\* The coroutine has not returned yet.
Running == [Dict(FALSE, "") EXCEPT !.ret = "running"]

RateLimitMsg == "Rate limit exceeded. Please wait and try again."

\* ------------------------------------------------------ the remote data
\* The records of the batch behind page token p: zero, one or two records,
\* each identified by its page token and its position.
RecordsOf(p) == [i \in 1..((p + 1) % 3) |-> <<p, i>>]
\* The recordsCount the remote API reports for that batch; it disagrees
\* with the length of the record array for odd tokens.
CountOf(p) == IF p % 2 = 1 THEN Len(RecordsOf(p)) + 1 ELSE Len(RecordsOf(p))

Ascending(n) == [i \in 1..n |-> i]
Descending(n) == [i \in 1..n |-> n + 1 - i]
\* The pageTokens lists a completed task may report.
PageTokenLists == {Ascending(n) : n \in 0..MaxTop} \cup {Descending(n) : n \in 0..MaxTop}

\* "malformed": status 200 and success true, but no data or no token key.
AuthResponses == {"ok", "rejected", "http", "exception", "malformed"}
SubmitResponses == {"ok", "notsuccess", "429", "http", "exception"}
StatusFailures == {"notsuccess", "429", "http", "exception"}
TaskStates == {"Pending", "Processing", "Ready", "Completed", "Failed", "Cancelled"}
RetrieveFailures == {"notsuccess", "429", "http", "exception"}
RemoteErrors == <<"remote error">>
\* The error lists a status response may carry; without the key the code
\* reads an empty list.
RemoteErrorLists == {<<>>, RemoteErrors}

\* ----------------------------------------------------------- authenticate
\* The result dict of authenticate() for the response resp.
AuthResult(creds, resp) ==
    IF ~creds THEN Err("Missing credentials")
    ELSE IF resp = "ok" THEN Dict(TRUE, "")
    ELSE IF resp = "rejected" THEN Err("Authentication failed - invalid credentials")
    ELSE IF resp = "http" THEN Err("HTTP 500")
    ELSE Err("Authentication error")

\* authenticate() that posts to the endpoint without looking at the credentials.
AuthCallsAlways(creds) == 1

\* The number of requests authenticate() sends to /auth/external.
AuthCalls(creds) == IF creds THEN 1 ELSE 0

\* authenticate() that forgets the held token when the acquisition fails.
AuthTokenAfterClears(creds, resp, tok, issued) ==
    IF creds /\ resp = "ok" THEN Some(issued + 1) ELSE None

\* The token the cache holds after authenticate().
AuthTokenAfter(creds, resp, tok, issued) ==
    IF creds /\ resp = "ok" THEN Some(issued + 1) ELSE tok

\* authenticate() that sets the expiry only when the cache holds none.
AuthExpiryAfterKeepsOld(creds, resp, exp, t) ==
    IF creds /\ resp = "ok" /\ exp = None THEN Some(t + TokenLifetime) ELSE exp

\* The expiry the cache holds after authenticate() at time t.
AuthExpiryAfter(creds, resp, exp, t) ==
    IF creds /\ resp = "ok" THEN Some(t + TokenLifetime) ELSE exp

\* search_logs: "if not self.auth_token or time.time() > self.token_expires_at".
NeedsAuth(tok, exp, t) == tok = None \/ t > exp[1]

\* check_task_status, retrieve_logs: "if not self.auth_token".
NoToken(tok) == tok = None

\* ----------------------------------------------------------- search_logs
\* search_logs without its "elif response.status_code == 429" branch.
SubmitResultNo429(resp) ==
    IF resp = "ok" THEN [Dict(TRUE, "") EXCEPT !.taskId = TRUE]
    ELSE IF resp = "notsuccess" THEN Err("Search request failed")
    ELSE IF resp = "429" THEN Err("HTTP 429")
    ELSE IF resp = "http" THEN Err("HTTP 500")
    ELSE Err("Search error")

\* search_logs that does not look at the success flag of a 200 answer.
SubmitResultIgnoresFlag(resp) ==
    IF resp \in {"ok", "notsuccess"} THEN [Dict(TRUE, "") EXCEPT !.taskId = TRUE]
    ELSE IF resp = "429" THEN Err(RateLimitMsg)
    ELSE IF resp = "http" THEN Err("HTTP 500")
    ELSE Err("Search error")

\* The result dict of the submit call for the response resp.
SubmitResult(resp) ==
    IF resp = "ok" THEN [Dict(TRUE, "") EXCEPT !.taskId = TRUE]
    ELSE IF resp = "notsuccess" THEN Err("Search request failed")
    ELSE IF resp = "429" THEN Err(RateLimitMsg)
    ELSE IF resp = "http" THEN Err("HTTP 500")
    ELSE Err("Search error")

\* ------------------------------------------------------ check_task_status
\* check_task_status that reports every answer as a success.
StatusResultIgnoresFailure(resp) == Dict(TRUE, "")

StatusResult(resp) ==
    IF resp \in TaskStates THEN Dict(TRUE, "")
    ELSE IF resp = "notsuccess" THEN Err("Status check failed")
    ELSE IF resp = "429" THEN Err("HTTP 429")
    ELSE IF resp = "http" THEN Err("HTTP 500")
    ELSE Err("Status check error")

\* The poll loop without its "Failed" branch: a failed task is polled again.
PollBranchFailedSleeps(state) ==
    IF state \in {"Completed", "Ready"} THEN "break"
    ELSE IF state \in {"Processing", "Pending", "Failed"} THEN "sleep"
    ELSE "unknown"

\* The poll loop that sleeps and polls again on any state it does not know.
PollBranchUnknownSleeps(state) ==
    IF state \in {"Completed", "Ready"} THEN "break"
    ELSE IF state = "Failed" THEN "failed"
    ELSE "sleep"

\* The poll loop with "Ready" left out of the terminal states and treated as
\* still running.
PollBranchReadySleeps(state) ==
    IF state = "Completed" THEN "break"
    ELSE IF state = "Failed" THEN "failed"
    ELSE IF state \in {"Processing", "Pending", "Ready"} THEN "sleep"
    ELSE "unknown"

\* The branch the poll loop takes on a task state.
PollBranch(state) ==
    IF state \in {"Completed", "Ready"} THEN "break"
    ELSE IF state = "Failed" THEN "failed"
    ELSE IF state \in {"Processing", "Pending"} THEN "sleep"
    ELSE "unknown"

\* The loop test off by one: "while attempt <= max_attempts".
LoopRunsOffByOne(a) == a <= max_attempts

\* "while attempt < max_attempts".
LoopRuns(a) == a < max_attempts

\* ---------------------------------------------------------- retrieve_logs
\* retrieve_logs without its "elif response.status_code == 429" branch.
RetrieveResultNo429(resp) ==
    IF resp = "ok" THEN Dict(TRUE, "")
    ELSE IF resp = "notsuccess" THEN Err("Log retrieval failed")
    ELSE IF resp = "429" THEN Err("HTTP 429")
    ELSE IF resp = "http" THEN Err("HTTP 500")
    ELSE Err("Retrieval error")

\* The result dict of retrieve_logs for the response resp.
RetrieveResult(resp) ==
    IF resp = "ok" THEN Dict(TRUE, "")
    ELSE IF resp = "notsuccess" THEN Err("Log retrieval failed")
    ELSE IF resp = "429" THEN Err(RateLimitMsg)
    ELSE IF resp = "http" THEN Err("HTTP 500")
    ELSE Err("Retrieval error")

\* The batch put in front of the records instead of behind them.
ExtendInFront(records, batch) == batch \o records

\* "all_records.extend(retrieve_result["records"])".
Extend(records, batch) == records \o batch

\* The length of the record array added instead of the reported count.
AddLength(total, p) == total + Len(RecordsOf(p))

\* "total_records += retrieve_result["recordsCount"]".
AddCount(total, p) == total + CountOf(p)

\* A failed top-level retrieval that only skips its shard.
OnTopFailureSkips == "break"
\* What a failed top-level retrieval does to the run: "return retrieve_result".
OnTopFailure == "return"
\* A failed chained retrieval that returns its failure, as a top-level one does.
OnChainFailureReturns == "return"
\* What a failed chained retrieval does to the run: "break".
OnChainFailure == "break"

\* "all_records[:5] if all_records else []".
Sample(records) == SubSeq(records, 1, IF Len(records) < SampleSize THEN Len(records) ELSE SampleSize)

\* The request that carries "Authorization: Bearer {self.auth_token}": sent at
\* `at` with `token`, whose expiry is `expires`; the cache held heldToken and
\* heldExpires when the operation began, and the operation made `acquired`
\* requests for a token before it sent this one.
Request(op, task, tok, exp, acquired) ==
    [op |-> op, at |-> now, task |-> task, token |-> tok, expires |-> exp,
     heldToken |-> auth_token, heldExpires |-> token_expires_at, acquired |-> acquired]

\* check_task_status and retrieve_logs send the cached token as it is.
Bearer(op) == Request(op, task_id, auth_token, token_expires_at, 0)

\* The frame of a coroutine that has not been started.
IdleFrame ==
    [pc |-> "idle", save_locally |-> FALSE, task_id |-> None, attempt |-> 0,
     page_tokens |-> <<>>, idx |-> 1, next_token |-> None, all_records |-> <<>>,
     total_records |-> 0, result |-> Running, srvPageTokens |-> <<>>, srvFresh |-> 0,
     nSubmit |-> 0, nStatus |-> 0, nRetrieve |-> 0, nFiles |-> 0, nPending |-> 0,
     ready |-> FALSE, lastSubmit |-> None, issuedTask |-> None, authFailure |-> None,
     statusNote |-> None, lastReq |-> None, log |-> <<>>, lastResp |-> None]

\* The taskId the remote API gives a new task: the least one no live task has.
FreeTaskId == IF parked.issuedTask = Some(1) THEN 2 ELSE 1

\* ------------------------------------------------------------------ Init
RunInit ==
    /\ has_credentials \in BOOLEAN
    /\ auth_token = None
    /\ token_expires_at = None
    /\ now = 0
    /\ pc = "idle"
    /\ save_locally = FALSE
    /\ task_id = None
    /\ attempt = 0
    /\ page_tokens = <<>>
    /\ idx = 1
    /\ next_token = None
    /\ all_records = <<>>
    /\ total_records = 0
    /\ result = Running
    /\ srvIssued = 0
    /\ srvPageTokens = <<>>
    /\ srvFresh = 0
    /\ nSubmit = 0 /\ nStatus = 0 /\ nRetrieve = 0 /\ nFiles = 0
    /\ nPending = 0
    /\ ready = FALSE
    /\ lastSubmit = None
    /\ issuedTask = None
    /\ authFailure = None
    /\ statusNote = None
    /\ acquiredAt = None
    /\ lastReq = None
    /\ log = <<>>
    /\ lastResp = None
    /\ cur = 1
    /\ parked = IdleFrame

\* No query has been given to the translation.
QueryIdle ==
    /\ query = <<>>
    /\ translated = None

\* main() has built the server object and has read nothing.
LoopInit ==
    /\ loop = "running"
    /\ initialized = FALSE
    /\ nLines = 0
    /\ lastLine = None
    /\ lastOut = None
    /\ pending = None
    /\ printed = <<>>

\* An instant: whole hours since 0001-01-01T00:00, the least datetime, and
\* the microseconds within the hour.
Instant(hours, micro) == [hours |-> hours, micro |-> micro]

\* No timeframe has been given.
TimeIdle ==
    /\ timeframe_text = <<>>
    /\ clock = Instant(0, 0)
    /\ window = None

Init == RunInit /\ QueryIdle /\ LoopInit /\ TimeIdle

\* --------------------------------------------------------------- actions
\* get_all_logs is entered at instant t with save_locally = save.
BeginRun(t, save) ==
    /\ pc \in {"idle", "done"}
    /\ t >= now
    /\ now' = t
    /\ pc' = "search"
    /\ save_locally' = save
    /\ task_id' = None
    /\ attempt' = 0
    /\ page_tokens' = <<>>
    /\ idx' = 1
    /\ next_token' = None
    /\ all_records' = <<>>
    /\ total_records' = 0
    /\ result' = Running
    /\ srvPageTokens' = <<>>
    /\ srvFresh' = 0
    /\ nSubmit' = 0 /\ nStatus' = 0 /\ nRetrieve' = 0 /\ nFiles' = 0
    /\ nPending' = 0
    /\ ready' = FALSE
    /\ lastSubmit' = None
    /\ issuedTask' = None
    /\ authFailure' = None
    /\ statusNote' = None
    /\ lastReq' = None
    /\ log' = <<>>
    /\ lastResp' = None

\* handle_request, tools/call search_infinity_events: get_all_logs is called
\* at instant t with save_locally = save.
StartRun(t, save) == BeginRun(t, save) /\ UNCHANGED <<serverVars, concVars, otherVars>>

\* search_logs: authenticate when the cache asks for it, then submit.
SearchLogs(authResp, submitResp) ==
    /\ pc = "search"
    /\ LET stale == NeedsAuth(auth_token, token_expires_at, now)
           authRes == IF stale THEN AuthResult(has_credentials, authResp) ELSE Dict(TRUE, "")
           tok == IF stale THEN AuthTokenAfter(has_credentials, authResp, auth_token, srvIssued)
                  ELSE auth_token
           exp == IF stale THEN AuthExpiryAfter(has_credentials, authResp, token_expires_at, now)
                  ELSE token_expires_at
           calls == IF stale THEN AuthCalls(has_credentials) ELSE 0
           subRes == SubmitResult(submitResp)
       IN  /\ auth_token' = tok
           /\ token_expires_at' = exp
           /\ srvIssued' = IF tok # auth_token THEN srvIssued + 1 ELSE srvIssued
           /\ acquiredAt' = IF tok # auth_token THEN Some(now) ELSE acquiredAt
           /\ IF ~authRes.success
              THEN /\ result' = authRes
                   /\ pc' = "done"
                   /\ authFailure' = Some([called |-> calls > 0, resp |-> authResp])
                   /\ UNCHANGED <<nSubmit, lastReq, lastSubmit, task_id, issuedTask>>
              ELSE /\ nSubmit' = nSubmit + 1
                   /\ lastSubmit' = Some(submitResp)
                   /\ lastReq' = Some(Request("submit", None, tok, exp, calls))
                   /\ UNCHANGED authFailure
                   /\ IF subRes.success
                      THEN /\ pc' = "poll"
                           /\ task_id' = Some(FreeTaskId)
                           /\ issuedTask' = Some(FreeTaskId)
                           /\ UNCHANGED result
                      ELSE /\ result' = subRes
                           /\ pc' = "done"
                           /\ UNCHANGED <<task_id, issuedTask>>
    /\ UNCHANGED <<has_credentials, now, save_locally, attempt, nStatus, nRetrieve, nFiles,
                   nPending, ready, statusNote, concVars, otherVars>>
    /\ UNCHANGED drainVars

\* One iteration of the poll loop: check_task_status, then the branch on the
\* task state; the sleep and the test after the loop belong to the iteration.
CheckStatus(resp, tokens, errs) ==
    /\ pc = "poll"
    /\ LoopRuns(attempt)
    /\ IF NoToken(auth_token)
       THEN /\ result' = Err("No authentication token")
            /\ pc' = "done"
            /\ UNCHANGED <<now, attempt, page_tokens, srvPageTokens, srvFresh, nStatus, lastReq,
                           nPending, ready, statusNote>>
       ELSE /\ nStatus' = nStatus + 1
            /\ nPending' = IF resp \in {"Pending", "Processing"} THEN nPending + 1 ELSE nPending
            /\ ready' = (ready \/ resp \in {"Ready", "Completed"})
            /\ statusNote' = IF resp \in {"Pending", "Processing", "Ready", "Completed"}
                              THEN statusNote
                              ELSE Some([code |-> resp,
                                         errors |-> IF resp \in TaskStates THEN errs ELSE <<>>])
            /\ lastReq' = Some(Bearer("status"))
            /\ srvPageTokens' = IF resp \in {"Ready", "Completed"} THEN tokens ELSE <<>>
            /\ srvFresh' = IF resp \in {"Ready", "Completed"} THEN Len(tokens) ELSE srvFresh
            /\ IF ~StatusResult(resp).success
               THEN /\ result' = StatusResult(resp)
                    /\ pc' = "done"
                    /\ UNCHANGED <<now, attempt, page_tokens>>
               ELSE CASE PollBranch(resp) = "break" ->
                            /\ page_tokens' = srvPageTokens'
                            /\ pc' = IF Len(srvPageTokens') = 0 THEN "save" ELSE "top"
                            /\ UNCHANGED <<now, attempt, result>>
                      [] PollBranch(resp) = "failed" ->
                            /\ result' = [Err("Search task failed") EXCEPT !.errors = errs]
                            /\ pc' = "done"
                            /\ UNCHANGED <<now, attempt, page_tokens>>
                      [] PollBranch(resp) = "sleep" ->
                            /\ now' = now + SleepSeconds
                            /\ attempt' = attempt + 1
                            /\ IF LoopRuns(attempt + 1)
                               THEN /\ pc' = "poll"
                                    /\ UNCHANGED result
                               ELSE /\ result' = Err("Task timed out")
                                    /\ pc' = "done"
                            /\ UNCHANGED page_tokens
                      [] OTHER ->
                            /\ result' = Err("Unknown task state")
                            /\ pc' = "done"
                            /\ UNCHANGED <<now, attempt, page_tokens>>
    /\ UNCHANGED <<serverVars, save_locally, task_id, idx, next_token, all_records,
                   total_records, nSubmit, nRetrieve, nFiles, lastSubmit, issuedTask, authFailure,
                   log, lastResp, concVars, otherVars>>

\* A for loop that does not move on to the next page token.
NextShardStuck(i) == i

\* "for page_token in page_tokens": the index of the shard after shard i.
NextShard(i) == i + 1

\* A for loop that stays in the inner while loop when a shard is finished.
AfterShardStays(i) == "chain"

\* The position of the for loop after shard i is finished.
AfterShard(i) == IF i < Len(page_tokens) THEN "top" ELSE "save"

\* The body of the for loop up to the chained pages: retrieve the top-level
\* page of shard idx.  hasNext: the batch carries a nextPageToken.
RetrieveTop(resp, hasNext) ==
    /\ pc = "top"
    /\ hasNext => 0 < MaxChain
    /\ LET p == page_tokens[idx]
           res == IF NoToken(auth_token) THEN Err("No authentication token")
                  ELSE RetrieveResult(resp)
       IN  /\ IF NoToken(auth_token)
              THEN UNCHANGED <<nRetrieve, lastReq, lastResp>>
              ELSE /\ nRetrieve' = nRetrieve + 1
                   /\ lastReq' = Some(Bearer("retrieve"))
                   /\ lastResp' = Some([level |-> "top", code |-> resp])
           /\ IF ~res.success
              THEN /\ IF OnTopFailure = "return"
                      THEN /\ result' = res
                           /\ pc' = "done"
                           /\ UNCHANGED idx
                      ELSE /\ pc' = AfterShard(idx)
                           /\ idx' = NextShard(idx)
                           /\ UNCHANGED result
                   /\ UNCHANGED <<next_token, all_records, total_records, srvFresh, log>>
              ELSE /\ all_records' = Extend(all_records, RecordsOf(p))
                   /\ total_records' = AddCount(total_records, p)
                   /\ log' = Append(log, [task |-> task_id, tok |-> p, shard |-> idx, depth |-> 0,
                                           next |-> IF hasNext THEN Some(srvFresh + 1) ELSE None])
                   /\ IF hasNext
                      THEN /\ next_token' = Some(srvFresh + 1)
                           /\ srvFresh' = srvFresh + 1
                           /\ pc' = "chain"
                           /\ UNCHANGED idx
                      ELSE /\ next_token' = None
                           /\ pc' = AfterShard(idx)
                           /\ idx' = NextShard(idx)
                           /\ UNCHANGED srvFresh
                   /\ UNCHANGED result
    /\ UNCHANGED <<serverVars, now, save_locally, task_id, attempt, page_tokens,
                   srvPageTokens, nSubmit, nStatus, nFiles, nPending, ready, lastSubmit,
                   issuedTask, authFailure, statusNote, concVars, otherVars>>

\* The number of chained pages of shard i retrieved so far.
ChainDepth(i) == Cardinality({k \in 1..Len(log) : log[k].shard = i /\ log[k].depth > 0})

\* One iteration of "while next_token": retrieve a chained page of shard idx.
RetrieveChained(resp, hasNext) ==
    /\ pc = "chain"
    /\ next_token # None
    /\ hasNext => ChainDepth(idx) + 1 < MaxChain
    /\ LET p == next_token[1]
           d == ChainDepth(idx) + 1
           res == IF NoToken(auth_token) THEN Err("No authentication token")
                  ELSE RetrieveResult(resp)
       IN  /\ IF NoToken(auth_token)
              THEN UNCHANGED <<nRetrieve, lastReq, lastResp>>
              ELSE /\ nRetrieve' = nRetrieve + 1
                   /\ lastReq' = Some(Bearer("retrieve"))
                   /\ lastResp' = Some([level |-> "chain", code |-> resp])
           /\ IF ~res.success
              THEN /\ IF OnChainFailure = "break"
                      THEN /\ pc' = AfterShard(idx)
                           /\ idx' = NextShard(idx)
                           /\ UNCHANGED result
                      ELSE /\ result' = res
                           /\ pc' = "done"
                           /\ UNCHANGED idx
                   /\ UNCHANGED <<next_token, all_records, total_records, srvFresh, log>>
              ELSE /\ all_records' = Extend(all_records, RecordsOf(p))
                   /\ total_records' = AddCount(total_records, p)
                   /\ log' = Append(log, [task |-> task_id, tok |-> p, shard |-> idx, depth |-> d,
                                           next |-> IF hasNext THEN Some(srvFresh + 1) ELSE None])
                   /\ IF hasNext
                      THEN /\ next_token' = Some(srvFresh + 1)
                           /\ srvFresh' = srvFresh + 1
                           /\ pc' = "chain"
                           /\ UNCHANGED idx
                      ELSE /\ next_token' = None
                           /\ pc' = AfterShard(idx)
                           /\ idx' = NextShard(idx)
                           /\ UNCHANGED srvFresh
                   /\ UNCHANGED result
    /\ UNCHANGED <<serverVars, now, save_locally, task_id, attempt, page_tokens,
                   srvPageTokens, nSubmit, nStatus, nFiles, nPending, ready, lastSubmit,
                   issuedTask, authFailure, statusNote, concVars, otherVars>>

\* What get_all_logs returns after the drain; written: the file was written.
FinalResult(save, written, records, total) ==
    IF save
    THEN IF written
         THEN [Dict(TRUE, "") EXCEPT !.saved = TRUE, !.total_records = total,
                                     !.sample_records = Sample(records)]
         ELSE Err("Failed to save file")
    ELSE PyNone

\* Step 5 and the end of get_all_logs.
Finish(written) ==
    /\ pc = "save"
    /\ ~save_locally => written
    /\ result' = FinalResult(save_locally, written, all_records, total_records)
    /\ nFiles' = IF save_locally /\ written THEN nFiles + 1 ELSE nFiles
    /\ pc' = "done"
    /\ UNCHANGED <<serverVars, now, save_locally, task_id, attempt, nSubmit, nStatus,
                   nRetrieve, nPending, ready, lastSubmit, issuedTask, authFailure, statusNote,
                   lastReq, concVars, otherVars>>
    /\ UNCHANGED drainVars

Next ==
    \/ \E t \in ArrivalTimes, save \in BOOLEAN : StartRun(t, save)
    \/ \E a \in AuthResponses, s \in SubmitResponses : SearchLogs(a, s)
    \/ \E r \in StatusFailures \cup TaskStates, toks \in PageTokenLists, e \in RemoteErrorLists :
          CheckStatus(r, toks, e)
    \/ \E r \in RetrieveFailures \cup {"ok"}, n \in BOOLEAN : RetrieveTop(r, n)
    \/ \E r \in RetrieveFailures \cup {"ok"}, n \in BOOLEAN : RetrieveChained(r, n)
    \/ \E w \in BOOLEAN : Finish(w)

vars == <<has_credentials, auth_token, token_expires_at, srvIssued, acquiredAt, now,
          frameVars, concVars, queryVars, loopVars, timeVars>>

Spec == Init /\ [][Next]_vars

\* A step of the invocation in progress: every call it makes returns (the
\* requests have timeout=30) and the sleep of the poll loop ends.
RunStep ==
    \/ \E a \in AuthResponses, s \in SubmitResponses : SearchLogs(a, s)
    \/ \E r \in StatusFailures \cup TaskStates, toks \in PageTokenLists, e \in RemoteErrorLists :
          CheckStatus(r, toks, e)
    \/ \E r \in RetrieveFailures \cup {"ok"}, n \in BOOLEAN : RetrieveTop(r, n)
    \/ \E r \in RetrieveFailures \cup {"ok"}, n \in BOOLEAN : RetrieveChained(r, n)
    \/ \E w \in BOOLEAN : Finish(w)

\* The first invocation of the tool after construction.
FirstRun == pc = "idle" /\ \E save \in BOOLEAN : StartRun(0, save)

NextLive == FirstRun \/ RunStep

\* One invocation, with the event loop running it.
SpecLive == Init /\ [][NextLive]_vars /\ WF_vars(RunStep)

\* ------------------------------------------------- interleaved coroutines
\* The most status answers Pending one invocation gets while invocations are
\* interleaved.
MaxConcPolls == 2
\* The most tokens the remote API issues while invocations are interleaved.
MaxTokens == 3

\* The local variables of the running invocation.
Frame ==
    [pc |-> pc, save_locally |-> save_locally, task_id |-> task_id, attempt |-> attempt,
     page_tokens |-> page_tokens, idx |-> idx, next_token |-> next_token,
     all_records |-> all_records, total_records |-> total_records, result |-> result,
     srvPageTokens |-> srvPageTokens, srvFresh |-> srvFresh, nSubmit |-> nSubmit,
     nStatus |-> nStatus, nRetrieve |-> nRetrieve, nFiles |-> nFiles,
     nPending |-> nPending, ready |-> ready, lastSubmit |-> lastSubmit,
     issuedTask |-> issuedTask, authFailure |-> authFailure, statusNote |-> statusNote,
     lastReq |-> lastReq, log |-> log, lastResp |-> lastResp]

\* The running invocation is suspended in "await asyncio.sleep(2)", the only
\* place where get_all_logs gives up the event loop.
AtAwait == pc = "poll" /\ attempt >= 1

\* An invocation whose taskId is an attribute of the server object, so that
\* it continues with the taskId of the invocation that ran last.
ResumeSharedTaskId(f, running) == [f EXCEPT !.task_id = running.task_id]

\* The frame a suspended invocation continues with: its own local variables.
Resume(f, running) == f

\* The event loop leaves the running coroutine, which is suspended in its
\* sleep or has returned, and runs the other one.
Switch ==
    /\ pc \in {"idle", "done"} \/ AtAwait
    /\ pc = "idle" => parked.pc # "idle"
    /\ LET f == Resume(parked, Frame)
       IN  /\ pc' = f.pc
           /\ save_locally' = f.save_locally
           /\ task_id' = f.task_id
           /\ attempt' = f.attempt
           /\ page_tokens' = f.page_tokens
           /\ idx' = f.idx
           /\ next_token' = f.next_token
           /\ all_records' = f.all_records
           /\ total_records' = f.total_records
           /\ result' = f.result
           /\ srvPageTokens' = f.srvPageTokens
           /\ srvFresh' = f.srvFresh
           /\ nSubmit' = f.nSubmit
           /\ nStatus' = f.nStatus
           /\ nRetrieve' = f.nRetrieve
           /\ nFiles' = f.nFiles
           /\ nPending' = f.nPending
           /\ ready' = f.ready
           /\ lastSubmit' = f.lastSubmit
           /\ issuedTask' = f.issuedTask
           /\ authFailure' = f.authFailure
           /\ statusNote' = f.statusNote
           /\ lastReq' = f.lastReq
           /\ log' = f.log
           /\ lastResp' = f.lastResp
    /\ parked' = IF pc = "done" THEN IdleFrame ELSE Frame
    /\ cur' = 3 - cur
    /\ UNCHANGED <<serverVars, now, otherVars>>

\* authenticate() called at instant t, whatever the cache holds.
Acquire(t, resp) ==
    /\ pc \in {"idle", "done"} \/ AtAwait
    /\ t >= now
    /\ now' = t
    /\ auth_token' = AuthTokenAfter(has_credentials, resp, auth_token, srvIssued)
    /\ token_expires_at' = AuthExpiryAfter(has_credentials, resp, token_expires_at, t)
    /\ srvIssued' = IF auth_token' # auth_token THEN srvIssued + 1 ELSE srvIssued
    /\ acquiredAt' = IF auth_token' # auth_token THEN Some(t) ELSE acquiredAt

\* handle_request, tools/call check_credentials, at instant t.
CheckCredentials(t, resp) ==
    Acquire(t, resp) /\ UNCHANGED <<has_credentials, frameVars, concVars, otherVars>>

ConcPageTokenLists == {Ascending(n) : n \in 0..1}

NextConc ==
    \/ \E t \in ArrivalTimes : StartRun(t, TRUE)
    \/ \E a \in {"ok", "rejected"} : SearchLogs(a, "ok")
    \/ \E r \in {"Pending", "Ready", "Failed"}, toks \in ConcPageTokenLists :
          /\ r = "Pending" => attempt < MaxConcPolls
          /\ CheckStatus(r, toks, <<>>)
    \/ \E r \in {"ok", "http"}, n \in BOOLEAN : RetrieveTop(r, n)
    \/ \E r \in {"ok", "http"} : RetrieveChained(r, FALSE)
    \/ Finish(TRUE)
    \/ Switch
    \/ \E t \in ArrivalTimes, a \in {"ok", "rejected"} :
          /\ srvIssued < MaxTokens
          /\ CheckCredentials(t, a)

SpecConc == Init /\ [][NextConc]_vars

\* ------------------------------------------------------------ main loop
\* The most lines main() reads.
MaxLines == 3

\* A line of standard input.  text: "eof" (readline returned ""), "blank",
\* "garbage" (not JSON) or "json"; for JSON text, json is the kind of the
\* value; for an object, method, id and params are what request.get reads
\* ("absent": no such key) and tool is params["name"].
Line(text, json, method, id, params, tool) ==
    [text |-> text, json |-> json, method |-> method, id |-> id, params |-> params,
     tool |-> tool]

NotARequest(text, json) == Line(text, json, "absent", "absent", "absent", "absent")

Methods == {"absent", "initialize", "tools/list", "tools/call", "notifications/initialized",
            "bogus/method"}
Ids == {"absent", "null", "7"}
Tools == {"absent", "search_infinity_events", "check_credentials", "bogus_tool"}

Lines ==
    {NotARequest(t, "none") : t \in {"eof", "blank", "garbage"}}
    \cup {NotARequest("json", j) : j \in {"array", "number", "string", "null", "true"}}
    \cup {Line("json", "object", m, i, "absent", "absent") : m \in Methods, i \in Ids}
    \cup {Line("json", "object", m, i, "null", "absent") : m \in Methods, i \in Ids}
    \cup {Line("json", "object", m, i, "object", t) : m \in Methods, i \in Ids, t \in Tools}

\* What handle_request does with a request: it returns nothing
\* (kind "none"), returns a response with the request's id and a result or an
\* error code, or raises.
Out(kind, id, code) == [kind |-> kind, id |-> id, code |-> code]
NoResponse == Out("none", "absent", 0)
Raises == Out("raise", "absent", 0)

\* json.loads(line.strip()) raises JSONDecodeError.
DecodeError(line) == line.text \in {"blank", "garbage"}

\* handle_request.  The three request.get calls come before the try block, so
\* a decoded value that is not an object raises AttributeError out of
\* handle_request; inside the try, params.get on a null params and an
\* exception of get_all_logs become the -32603 response.
HandleRequest(req, toolRaises) ==
    IF req.json # "object" THEN Raises
    ELSE IF req.id \in {"absent", "null"} THEN NoResponse
    ELSE IF req.method \in {"initialize", "tools/list"} THEN Out("result", req.id, 0)
    ELSE IF req.method = "tools/call"
         THEN IF req.params = "null" THEN Out("error", req.id, -32603)
              ELSE IF req.tool = "search_infinity_events"
                   THEN IF toolRaises THEN Out("error", req.id, -32603)
                        ELSE Out("result", req.id, 0)
              ELSE IF req.tool = "check_credentials" THEN Out("result", req.id, 0)
              ELSE Out("error", req.id, -32601)
    ELSE Out("error", req.id, -32601)

\* self.initialized after handle_request.
InitializedAfter(req, flag) ==
    IF /\ req.json = "object"
       /\ req.id \in {"absent", "null"}
       /\ req.method = "notifications/initialized"
    THEN TRUE ELSE flag

\* What main() prints for request n: nothing when handle_request returned
\* None.
Emit(out, n) ==
    /\ lastOut' = IF out.kind = "none" THEN None ELSE Some(out)
    /\ printed' = IF out.kind = "none" THEN printed ELSE Append(printed, n)

\* The body of "while True" in main(): read a line, decode it, handle the
\* request, print the response.  toolRaises: get_all_logs raises.
Iterate(line, toolRaises) ==
    /\ loop = "running"
    /\ nLines < MaxLines
    /\ toolRaises => (line.text = "json" /\ line.tool = "search_infinity_events")
    /\ nLines' = nLines + 1
    /\ lastLine' = Some(line)
    /\ IF line.text = "eof"
       THEN /\ loop' = "ended"
            /\ lastOut' = None
            /\ UNCHANGED <<initialized, printed>>
       ELSE IF DecodeError(line)
       THEN /\ lastOut' = None
            /\ UNCHANGED <<loop, initialized, printed>>
       ELSE LET out == HandleRequest(line, toolRaises)
            IN  IF out.kind = "raise"
                THEN /\ loop' = "crashed"
                     /\ lastOut' = None
                     /\ UNCHANGED <<initialized, printed>>
                ELSE /\ Emit(out, nLines + 1)
                     /\ initialized' = InitializedAfter(line, initialized)
                     /\ UNCHANGED loop
    /\ UNCHANGED pending

\* One iteration of the loop, the tools taken as a whole.
MainIteration(line, toolRaises) ==
    /\ Iterate(line, toolRaises)
    /\ UNCHANGED <<serverVars, now, frameVars, concVars, queryVars, timeVars>>

NextLoop == \E line \in Lines, toolRaises \in BOOLEAN : MainIteration(line, toolRaises)

SpecLoop == Init /\ [][NextLoop]_vars

\* ------------------------------------------- the loop driving the tools
\* The request makes handle_request call get_all_logs.
CallsSearch(line) ==
    /\ line.json = "object"
    /\ line.id \notin {"absent", "null"}
    /\ line.method = "tools/call"
    /\ line.params = "object"
    /\ line.tool = "search_infinity_events"

\* The request makes handle_request call authenticate().
CallsCheck(line) ==
    /\ line.json = "object"
    /\ line.id \notin {"absent", "null"}
    /\ line.method = "tools/call"
    /\ line.params = "object"
    /\ line.tool = "check_credentials"

\* A loop that reads on while handle_request is awaited.
MayReadAlways == TRUE

\* main() is at its readline: "await server.handle_request(request)" and the
\* print after it are over.
MayRead == pending = None

\* An iteration for a line that calls neither tool.
ServeLine(line) ==
    /\ MayRead
    /\ ~CallsSearch(line)
    /\ ~CallsCheck(line)
    /\ MainIteration(line, FALSE)

\* An iteration for a check_credentials call, at instant t.
ServeCheck(line, t, resp) ==
    /\ MayRead
    /\ CallsCheck(line)
    /\ Iterate(line, FALSE)
    /\ Acquire(t, resp)
    /\ UNCHANGED <<has_credentials, frameVars, concVars, queryVars, timeVars>>

\* The first half of an iteration for a search_infinity_events call: the line
\* is read and decoded and handle_request enters get_all_logs, which main()
\* awaits.
ServeSearch(line, t, save) ==
    /\ MayRead
    /\ CallsSearch(line)
    /\ loop = "running"
    /\ nLines < MaxLines
    /\ nLines' = nLines + 1
    /\ lastLine' = Some(line)
    /\ pending' = Some(nLines + 1)
    /\ BeginRun(t, save)
    /\ UNCHANGED <<loop, initialized, lastOut, printed>>
    /\ UNCHANGED <<serverVars, concVars, queryVars, timeVars>>

\* The second half: get_all_logs has returned or raised, handle_request
\* returns the response and main() prints it.
Respond(toolRaises) ==
    /\ pending # None
    /\ pc = "done"
    /\ Emit(HandleRequest(lastLine[1], toolRaises), pending[1])
    /\ pending' = None
    /\ UNCHANGED <<loop, initialized, nLines, lastLine>>
    /\ UNCHANGED <<serverVars, now, frameVars, concVars, queryVars, timeVars>>

\* The lines the loop is driven with: the end of input, a line that is not
\* JSON, a JSON array, and the handshake and the tool calls with and without
\* an id.
ServedLines ==
    {NotARequest("eof", "none"), NotARequest("garbage", "none"), NotARequest("json", "array")}
    \cup {Line("json", "object", m, i, "object", t) :
             m \in {"initialize", "tools/call", "notifications/initialized"},
             i \in Ids,
             t \in {"search_infinity_events", "check_credentials"}}

NextServe ==
    \/ \E line \in ServedLines : ServeLine(line)
    \/ \E line \in ServedLines, t \in ArrivalTimes, a \in {"ok", "rejected"} :
          ServeCheck(line, t, a)
    \/ \E line \in ServedLines, t \in ArrivalTimes : ServeSearch(line, t, TRUE)
    \/ \E a \in {"ok", "rejected"} : SearchLogs(a, "ok")
    \/ \E r \in {"Pending", "Ready", "Failed"}, toks \in ConcPageTokenLists :
          /\ r = "Pending" => attempt < MaxConcPolls
          /\ CheckStatus(r, toks, <<>>)
    \/ \E r \in {"ok", "http"}, n \in BOOLEAN : RetrieveTop(r, n)
    \/ \E r \in {"ok", "http"} : RetrieveChained(r, FALSE)
    \/ Finish(TRUE)
    \/ \E toolRaises \in BOOLEAN : Respond(toolRaises)

SpecServe == Init /\ [][NextServe]_vars

\* ------------------------------------------------- parse_query_to_filter
\* Text is a sequence of characters.  The words the translation looks for:
Str_critical == <<"c", "r", "i", "t", "i", "c", "a", "l">>
Str_high == <<"h", "i", "g", "h">>
Str_medium == <<"m", "e", "d", "i", "u", "m">>
Str_low == <<"l", "o", "w">>
Str_all == <<"a", "l", "l">>
Str_security == <<"s", "e", "c", "u", "r", "i", "t", "y">>
Str_events == <<"e", "v", "e", "n", "t", "s">>
Str_harmony == <<"h", "a", "r", "m", "o", "n", "y">>
Str_sase == <<"s", "a", "s", "e">>
Str_connect == <<"c", "o", "n", "n", "e", "c", "t">>
Str_endpoint == <<"e", "n", "d", "p", "o", "i", "n", "t">>
Str_mobile == <<"m", "o", "b", "i", "l", "e">>
Str_email == <<"e", "m", "a", "i", "l">>
Str_browse == <<"b", "r", "o", "w", "s", "e">>
Str_quantum == <<"q", "u", "a", "n", "t", "u", "m">>
Str_smart_1 == <<"s", "m", "a", "r", "t", "-", "1">>
Str_cloud == <<"c", "l", "o", "u", "d">>
Str_spark == <<"s", "p", "a", "r", "k">>
Str_src == <<"s", "r", "c">>
Str_source == <<"s", "o", "u", "r", "c", "e">>
Str_dst == <<"d", "s", "t">>
Str_dest == <<"d", "e", "s", "t">>
Str_destination == <<"d", "e", "s", "t", "i", "n", "a", "t", "i", "o", "n">>
Str_unknown == <<"u", "n", "k", "n", "o", "w", "n">>
Str_all_products == <<"a", "l", "l", "_", "p", "r", "o", "d", "u", "c", "t", "s">>

\* The phrases of line 99, with one space between their words.
Str_all_security_events == <<"a", "l", "l", " ", "s", "e", "c", "u", "r", "i", "t", "y", " ", "e", "v", "e", "n", "t", "s">>
Str_all_events == <<"a", "l", "l", " ", "e", "v", "e", "n", "t", "s">>
Str_security_events == <<"s", "e", "c", "u", "r", "i", "t", "y", " ", "e", "v", "e", "n", "t", "s">>

\* Words of a query that the translation does not look for as they are: an
\* address and a capitalised severity.
Str_address == <<"1", "0", ".", "2">>
Str_Critical == <<"C", "r", "i", "t", "i", "c", "a", "l">>

\* The most words a query has.
MaxWords == 3

\* The words queries are made of, and what stands between two words.
Vocabulary == {Str_critical, Str_Critical, Str_high, Str_medium, Str_low, Str_all, Str_events,
               Str_security_events, Str_harmony, Str_sase, Str_src, Str_dst, Str_address}
Separators == {<<" ">>, <<" ", " ">>, <<"\t">>}

RECURSIVE Join(_, _)
Join(words, sep) ==
    IF words = <<>> THEN <<>>
    ELSE IF Len(words) = 1 THEN words[1]
    ELSE words[1] \o sep \o Join(Tail(words), sep)

Queries ==
    {Join(ws, sep) : ws \in UNION {[1..n -> Vocabulary] : n \in 0..MaxWords},
                     sep \in Separators}

\* str.lower() on the characters of the vocabulary.
Lower(c) == IF c = "C" THEN "c" ELSE IF c = "L" THEN "l" ELSE c
LowerText(t) == [i \in 1..Len(t) |-> Lower(t[i])]

\* "w in t".
Contains(t, w) == \E i \in 1..(Len(t) - Len(w) + 1) : SubSeq(t, i, i + Len(w) - 1) = w

\* t has the characters of w from position i on.
StartsAt(t, i, w) == i + Len(w) - 1 <= Len(t) /\ SubSeq(t, i, i + Len(w) - 1) = w

\* \s of the regular expressions, and the class [0-9.].
Whitespace == {" ", "\t"}
AddressChars == {"0", "1", "2", "3", "4", "5", "6", "7", "8", "9", "."}

\* The position after the longest run of characters of set S that begins at i.
RECURSIVE RunEnd(_, _, _)
RunEnd(t, i, S) == IF i <= Len(t) /\ t[i] \in S THEN RunEnd(t, i + 1, S) ELSE i

\* A pattern word1\s+word2...: the position after its match at i, or 0.
RECURSIVE MatchWords(_, _, _)
MatchWords(t, i, parts) ==
    IF ~StartsAt(t, i, Head(parts)) THEN 0
    ELSE LET j == i + Len(Head(parts))
         IN  IF Len(parts) = 1 THEN j
             ELSE LET k == RunEnd(t, j, Whitespace)
                  IN  IF k = j THEN 0 ELSE MatchWords(t, k, Tail(parts))

Least(S) == CHOOSE x \in S : \A y \in S : x <= y

\* re.search(pattern, t).group(0): the leftmost match, or None.
Search(t, parts) ==
    LET at == {i \in 1..Len(t) : MatchWords(t, i, parts) # 0}
    IN  IF at = {} THEN None
        ELSE Some(SubSeq(t, Least(at), MatchWords(t, Least(at), parts) - 1))

app_patterns ==
    << <<Str_harmony, Str_sase>>, <<Str_harmony, Str_connect>>, <<Str_harmony, Str_endpoint>>,
       <<Str_harmony, Str_mobile>>, <<Str_harmony, Str_email>>, <<Str_harmony, Str_browse>>,
       <<Str_quantum, Str_smart_1, Str_cloud>>, <<Str_quantum, Str_spark>> >>

\* .replace(' ', ' '): every space is replaced by a space.
ReplaceSpaces(t) == [i \in 1..Len(t) |-> IF t[i] = " " THEN " " ELSE t[i]]

\* The loop over app_patterns: the match of the first pattern that matches.
AppName(t) ==
    LET hits == {k \in 1..Len(app_patterns) : Search(t, app_patterns[k]) # None}
    IN  IF hits = {} THEN None
        ELSE Some(ReplaceSpaces(Search(t, app_patterns[Least(hits)])[1]))

\* A translation that never takes the "all events" branch.
WantsAllNever(t) == FALSE

\* "any(phrase in query_lower for phrase in [...])".
WantsAll(t) ==
    \E phrase \in {Str_all_security_events, Str_all_events, Str_security_events} :
        Contains(t, phrase)

\* A clause of the filter: field:"value", or the group of two severities.
Clause(field, value) == [field |-> field, value |-> value]
\* The filter '*'.
Star == <<Clause("*", <<>>)>>

\* The severity chain without the test for "critical" and "high" together.
SeverityPartsNoGroup(t) ==
    IF Contains(t, Str_critical) THEN <<Clause("severity", <<"Critical">>)>>
    ELSE IF Contains(t, Str_high) THEN <<Clause("severity", <<"High">>)>>
    ELSE IF Contains(t, Str_medium) THEN <<Clause("severity", <<"Medium">>)>>
    ELSE IF Contains(t, Str_low) THEN <<Clause("severity", <<"Low">>)>>
    ELSE <<>>

\* The if/elif chain on the severity words: what it appends to filter_parts.
SeverityParts(t) ==
    IF Contains(t, Str_critical) /\ Contains(t, Str_high)
    THEN <<Clause("severity", <<"Critical", "High">>)>>
    ELSE IF Contains(t, Str_critical) THEN <<Clause("severity", <<"Critical">>)>>
    ELSE IF Contains(t, Str_high) THEN <<Clause("severity", <<"High">>)>>
    ELSE IF Contains(t, Str_medium) THEN <<Clause("severity", <<"Medium">>)>>
    ELSE IF Contains(t, Str_low) THEN <<Clause("severity", <<"Low">>)>>
    ELSE <<>>

\* (?:kw1|kw2|..)\s*[:\s]*([0-9.]+) at position i: the captured group of the
\* first keyword, in the order of kws, with which the pattern matches.
AddressAt(t, i, kws) ==
    LET end(kw) == RunEnd(t, i + Len(kw), Whitespace \cup {":"})
        ok(kw) == StartsAt(t, i, kw) /\ RunEnd(t, end(kw), AddressChars) > end(kw)
        hits == {k \in 1..Len(kws) : ok(kws[k])}
    IN  IF hits = {} THEN None
        ELSE LET kw == kws[Least(hits)]
             IN  Some(SubSeq(t, end(kw), RunEnd(t, end(kw), AddressChars) - 1))

\* re.search of that pattern: what is appended to filter_parts for `field`.
AddressParts(t, field, kws) ==
    LET at == {i \in 1..Len(t) : AddressAt(t, i, kws) # None}
    IN  IF at = {} THEN <<>> ELSE <<Clause(field, AddressAt(t, Least(at), kws)[1])>>

\* parse_query_to_filter: (app name, filter).
parse_query_to_filter(q) ==
    LET query_lower == LowerText(q)
        app_name == AppName(query_lower)
        product == IF app_name # None THEN <<Clause("ci_app_name", app_name[1])>> ELSE <<>>
        filter_parts == product
                        \o SeverityParts(query_lower)
                        \o AddressParts(query_lower, "src", <<Str_src, Str_source>>)
                        \o AddressParts(query_lower, "dst", <<Str_dst, Str_dest, Str_destination>>)
    IN  IF WantsAll(query_lower)
        THEN IF app_name # None THEN [app |-> app_name[1], filter |-> product]
             ELSE [app |-> Str_all_products, filter |-> Star]
        ELSE [app |-> IF app_name # None THEN app_name[1] ELSE Str_unknown,
              filter |-> IF filter_parts = <<>> THEN Star ELSE filter_parts]

\* A query is given to the translation.
QueryInit ==
    /\ query \in Queries
    /\ translated = None

\* get_all_logs translates the query.
Translate ==
    /\ translated = None
    /\ translated' = Some(parse_query_to_filter(query))
    /\ UNCHANGED <<query, serverVars, now, frameVars, concVars, loopVars, timeVars>>

InitQuery == RunInit /\ has_credentials /\ LoopInit /\ QueryInit /\ TimeIdle

NextQuery == Translate

SpecQuery == InitQuery /\ [][NextQuery]_vars

\* ------------------------------------------------------- parse_timeframe
\* The words timeframe texts are made of.
Str_last == <<"l", "a", "s", "t">>
Str_hours == <<"h", "o", "u", "r", "s">>
Str_h == <<"h">>
Str_days == <<"d", "a", "y", "s">>
Str_weeks == <<"w", "e", "e", "k", "s">>

\* The most words a timeframe text has.
MaxTimeWords == 3

TimeVocabulary ==
    {Str_last, Str_hours, Str_h, Str_days, Str_weeks,
     <<"L", "a", "s", "t">>,
     <<"y", "e", "s", "t", "e", "r", "d", "a", "y">>,
     <<"m", "i", "n", "u", "t", "e", "s">>,
     <<"0">>, <<"3">>, <<"2", "4">>,
     <<"8", "0", "0", "0", "0", "0">>}
\* What stands between two words of a timeframe text; nothing, as in "24h".
TimeSeparators == {<<>>, <<" ">>, <<"\t">>}

TimeframeTexts ==
    {Join(ws, sep) : ws \in UNION {[1..n -> TimeVocabulary] : n \in 0..MaxTimeWords},
                     sep \in TimeSeparators}

\* datetime.utcnow() at the calls: 2026-11-02T04:00:00 and half an hour later.
Clocks == {Instant(17758108, 0), Instant(17758108, 1800000000)}

\* The hours of timedelta(hours=1), timedelta(days=1), timedelta(weeks=1).
HoursOf(unit) == IF unit = "hours" THEN 1 ELSE IF unit = "days" THEN 24 ELSE 168

\* \d of the regular expressions.
Digits == {"0", "1", "2", "3", "4", "5", "6", "7", "8", "9"}

DigitValue(c) ==
    IF c = "0" THEN 0 ELSE IF c = "1" THEN 1 ELSE IF c = "2" THEN 2 ELSE IF c = "3" THEN 3
    ELSE IF c = "4" THEN 4 ELSE IF c = "5" THEN 5 ELSE IF c = "6" THEN 6
    ELSE IF c = "7" THEN 7 ELSE IF c = "8" THEN 8 ELSE 9

\* A number of hours, days or weeks that no datetime of the clock allows:
\* every value from here on makes the subtraction raise.
Beyond == 100000000

\* int(match.group(1)); the values from Beyond on are all kept as Beyond.
RECURSIVE ToInt(_)
ToInt(ds) ==
    IF ds = <<>> THEN 0
    ELSE LET front == ToInt(SubSeq(ds, 1, Len(ds) - 1))
         IN  IF front >= Beyond \div 10 THEN Beyond
             ELSE 10 * front + DigitValue(ds[Len(ds)])

\* The six patterns in their order: with or without "last\s+" in front, and
\* the letter that has to follow the number.
patterns ==
    << [last |-> TRUE, letter |-> "h", unit |-> "hours"],
       [last |-> TRUE, letter |-> "d", unit |-> "days"],
       [last |-> TRUE, letter |-> "w", unit |-> "weeks"],
       [last |-> FALSE, letter |-> "h", unit |-> "hours"],
       [last |-> FALSE, letter |-> "d", unit |-> "days"],
       [last |-> FALSE, letter |-> "w", unit |-> "weeks"] >>

\* The pattern p matched at position i of t: the digits of its group, or None.
NumberAt(t, i, p) ==
    LET j == IF p.last THEN RunEnd(t, i + Len(Str_last), Whitespace) ELSE i
        k == RunEnd(t, j, Digits)
        m == RunEnd(t, k, Whitespace)
    IN  IF /\ p.last => (StartsAt(t, i, Str_last) /\ j > i + Len(Str_last))
           /\ k > j
           /\ m <= Len(t) /\ t[m] = p.letter
        THEN Some(SubSeq(t, j, k - 1)) ELSE None

\* re.search(pattern, t).group(1): the group of the leftmost match, or None.
SearchNumber(t, p) ==
    LET at == {i \in 1..Len(t) : NumberAt(t, i, p) # None}
    IN  IF at = {} THEN None ELSE NumberAt(t, Least(at), p)

\* What parse_timeframe does: it returns a window or the subtraction raises.
Window(startTime, endTime) == [kind |-> "window", startTime |-> startTime, endTime |-> endTime]
RaisesOverflow == [kind |-> "raise", startTime |-> 0, endTime |-> 0]

\* strftime("%Y-%m-%dT%H:%M:%SZ"): the instant without its microseconds; the
\* minutes and seconds of the two clocks are written as seconds of the hour.
Format(t) == [hours |-> t.hours, seconds |-> t.micro \div 1000000]

\* "now - timedelta(unit=value)" and the dict that is returned: OverflowError
\* when the result is before the least datetime (a value too large for a
\* timedelta, 10^9 days and more, is one of these).
Minus(t, value, unit) ==
    IF value > t.hours \div HoursOf(unit)
    THEN RaisesOverflow
    ELSE Window(Format(Instant(t.hours - value * HoursOf(unit), t.micro)), Format(t))

\* parse_timeframe(timeframe_text) when the clock reads t.
parse_timeframe(text, t) ==
    LET lower == LowerText(text)
        hits == {k \in 1..Len(patterns) : SearchNumber(lower, patterns[k]) # None}
    IN  IF hits = {} THEN Minus(t, 24, "hours")
        ELSE LET p == patterns[Least(hits)]
             IN  Minus(t, ToInt(SearchNumber(lower, p)[1]), p.unit)

\* A timeframe text is given at some reading of the clock.
TimeInit ==
    /\ timeframe_text \in TimeframeTexts
    /\ clock \in Clocks
    /\ window = None

\* get_all_logs parses the timeframe.
ParseTimeframe ==
    /\ window = None
    /\ window' = Some(parse_timeframe(timeframe_text, clock))
    /\ UNCHANGED <<timeframe_text, clock, serverVars, now, frameVars, concVars, queryVars,
                   loopVars>>

InitTime == RunInit /\ has_credentials /\ LoopInit /\ QueryIdle /\ TimeInit

NextTime == ParseTimeframe

SpecTime == InitTime /\ [][NextTime]_vars

\* ================================================================ claims
RetrieveFailed(level) ==
    /\ lastResp # None
    /\ lastResp[1].level = level
    /\ lastResp[1].code # "ok"

RECURSIVE Flatten(_)
\* The record arrays of the batches of a log, concatenated in log order.
Flatten(l) == IF l = <<>> THEN <<>>
              ELSE Flatten(SubSeq(l, 1, Len(l) - 1)) \o RecordsOf(l[Len(l)].tok)

RECURSIVE SumCounts(_)
\* The sum of the recordsCount fields of the batches of a log.
SumCounts(l) == IF l = <<>> THEN 0
                ELSE SumCounts(SubSeq(l, 1, Len(l) - 1)) + CountOf(l[Len(l)].tok)

\* C1: every request that carries the bearer token (submit, status check,
\* page retrieval) is sent while now < expiresAt of the token it carries.
C1_BearerOnlyWhileValid ==
    lastReq # None => lastReq[1].at < lastReq[1].expires[1]

\* C2: a run whose submit, polling and top-level retrievals all succeeded
\* returns a result that carries the aggregated records and totalRecords,
\* whatever save_locally is.
C2_ResultCarriesRecords ==
    (pc = "done" /\ ready /\ ~RetrieveFailed("top")) =>
        /\ result.ret = "dict"
        /\ result.total_records = total_records
        /\ result.sample_records = all_records

\* C3: the status is polled at most 30 times, and a task still
\* Pending/Processing after 30 polls ends the run with the timeout error and
\* without any page retrieval.
C3_PollBound ==
    /\ nStatus <= 30
    /\ nPending >= 30 =>
        /\ pc = "done"
        /\ result = Err("Task timed out")
        /\ nRetrieve = 0

C3_Witness ==
    /\ pc = "done"
    /\ nPending = 30
    /\ nStatus = 30
    /\ result.error = "Task timed out"

\* C4: when k-1 Pending/Processing responses are followed by Ready or
\* Completed, exactly k status checks are made, k <= 30, none is made
\* afterwards, and the run goes on to the page tokens of that k-th response.
C4_StopsAtReady ==
    ready =>
        /\ nStatus = nPending + 1
        /\ nStatus <= 30
        /\ pc \in {"top", "chain", "save", "done"}
        /\ page_tokens = srvPageTokens

C4_Witness ==
    /\ ready
    /\ pc = "top"
    /\ nPending = 2
    /\ nStatus = 3
    /\ page_tokens = <<2, 1>>

\* C5: the aggregated records are the record arrays of the successfully
\* retrieved batches, concatenated in the order: top-level tokens as the status
\* response listed them, each followed by its chained pages in chain order
\* before the next top-level token; no batch is retrieved twice.
C5_EncounterOrder ==
    /\ all_records = Flatten(log)
    /\ \A k \in 1..Len(log) :
        /\ log[k].depth = 0 =>
            /\ log[k].tok = page_tokens[log[k].shard]
            /\ log[k].shard = (IF k = 1 THEN 1 ELSE log[k - 1].shard + 1)
        /\ log[k].depth > 0 =>
            /\ k > 1
            /\ log[k - 1].shard = log[k].shard
            /\ log[k - 1].depth = log[k].depth - 1
            /\ log[k - 1].next = Some(log[k].tok)
    /\ \A j, k \in 1..Len(log) : j # k => log[j].tok # log[k].tok
    /\ pc = "save" => {log[k].shard : k \in 1..Len(log)} = 1..Len(page_tokens)

\* Two top-level tokens, the first chained to one more page, the second not.
C5_Witness ==
    /\ pc = "save"
    /\ page_tokens = <<2, 1>>
    /\ Len(log) = 3
    /\ log[2].depth = 1
    /\ all_records = RecordsOf(2) \o RecordsOf(3) \o RecordsOf(1)
    /\ Len(all_records) = 3

\* C6: total_records is the sum of the recordsCount fields of the batches
\* retrieved successfully, whatever the lengths of their record arrays.
C6_TotalIsSumOfCounts ==
    total_records = SumCounts(log)

C6_Witness ==
    /\ pc = "save"
    /\ Len(log) = 3
    /\ log[2].depth = 1
    /\ total_records = CountOf(log[1].tok) + CountOf(log[2].tok) + CountOf(log[3].tok)
    /\ total_records # Len(all_records)

\* A step that made a chained retrieval which failed.
ChainedFailureStep ==
    /\ pc = "chain"
    /\ nRetrieve' = nRetrieve + 1
    /\ RetrieveFailed("chain")'

\* C7: a failed chained retrieval keeps every record and the count gathered
\* so far, does not end the run or set its result, and moves on to the next
\* top-level page token (or to the end of the drain after the last one).
C7_ChainedFailureTolerated ==
    [][ChainedFailureStep =>
        /\ all_records' = all_records
        /\ total_records' = total_records
        /\ result' = Running
        /\ idx' = idx + 1
        /\ pc' = (IF idx < Len(page_tokens) THEN "top" ELSE "save")]_vars

C7_Witness ==
    /\ RetrieveFailed("chain")
    /\ pc = "top"
    /\ idx = 2
    /\ Len(all_records) > 0
    /\ result = Running

\* C8: a failed top-level retrieval ends the run at once with that failure
\* as its result; the remaining page tokens are not retrieved and no file is
\* written.
C8_TopFailureAborts ==
    RetrieveFailed("top") =>
        /\ pc = "done"
        /\ result = RetrieveResult(lastResp[1].code)
        /\ ~result.success
        /\ nFiles = 0

C8_Witness ==
    /\ RetrieveFailed("top")
    /\ pc = "done"
    /\ idx = 1
    /\ Len(page_tokens) = 2
    /\ save_locally
    /\ result.error = "Log retrieval failed"

\* C9: a 429 answer to the submit call ends the run with the rate-limit
\* failure after exactly one submit call and no status or retrieval call.
C9_SubmitRateLimited ==
    lastSubmit = Some("429") =>
        /\ pc = "done"
        /\ result = Err(RateLimitMsg)
        /\ nSubmit = 1
        /\ nStatus = 0
        /\ nRetrieve = 0

C9_Witness ==
    /\ lastSubmit = Some("429")
    /\ pc = "done"
    /\ result.error = "Rate limit exceeded. Please wait and try again."

\* C10 as claimed: a 429 answer to any retrieve call of a run, top-level or
\* chained, is reported as the rate-limit condition in the run's result.
C10_Any429Reported ==
    (pc = "done" /\ lastResp # None /\ lastResp[1].code = "429") =>
        result = Err(RateLimitMsg)

\* C10 amended: a 429 answer to a top-level retrieve is the run's result, as
\* the rate-limit failure; after a 429 answer to a chained retrieve the run
\* goes on and its result is not the rate-limit failure of that call.
C10_Top429Reported ==
    /\ (lastResp # None /\ lastResp[1] = [level |-> "top", code |-> "429"]) =>
        /\ pc = "done"
        /\ result = Err(RateLimitMsg)
    /\ (lastResp # None /\ lastResp[1] = [level |-> "chain", code |-> "429"]) =>
        result.error # RateLimitMsg

C10_Witness ==
    /\ lastResp = Some([level |-> "top", code |-> "429"])
    /\ pc = "done"
    /\ result.error = RateLimitMsg
    /\ Len(log) > 0

\* The cache held no token that is valid at the instant request r was sent.
HeldStale(r) == r.heldToken = None \/ ~(r.at < r.heldExpires[1])

\* C11: an operation that needs the token and begins while the held token is
\* valid (now < expiresAt) acquires nothing and sends the held token; one that
\* begins with no token or after the expiry makes exactly one acquisition and
\* sends a new token whose expiry is 30 minutes after the acquisition.
C11_AcquiresExactlyWhenStale ==
    lastReq # None =>
        LET r == lastReq[1]
        IN  IF HeldStale(r)
            THEN /\ r.acquired = 1
                 /\ r.token # r.heldToken
                 /\ r.expires = Some(r.at + TokenLifetime)
            ELSE /\ r.acquired = 0
                 /\ r.token = r.heldToken
                 /\ r.expires = r.heldExpires

\* The status answer that ended the run carried the task state `state`.
EndedOnState(state) == statusNote # None /\ statusNote[1].code = state

\* C13: a status answer with state Failed ends the run at once: the result is
\* the task failure carrying the error list of that answer, the failing status
\* check is the last call of the run and was sent at the present instant, and
\* no page was retrieved and no file written.
C13_FailedAborts ==
    EndedOnState("Failed") =>
        /\ pc = "done"
        /\ result = [Err("Search task failed") EXCEPT !.errors = statusNote[1].errors]
        /\ lastReq # None /\ lastReq[1].op = "status" /\ lastReq[1].at = now
        /\ nStatus = nPending + 1
        /\ attempt = nPending
        /\ nRetrieve = 0
        /\ nFiles = 0

C13_Witness ==
    /\ EndedOnState("Failed")
    /\ statusNote[1].errors = RemoteErrors
    /\ result.errors = RemoteErrors
    /\ nPending = 2
    /\ pc = "done"

\* C14: a status answer whose state is none of Pending, Processing, Ready,
\* Completed, Failed ends the run at once with the unknown-task-state failure:
\* no sleep follows it, no further status check and no retrieval.
C14_UnknownStateAborts ==
    (statusNote # None
     /\ statusNote[1].code \in TaskStates
                               \ {"Pending", "Processing", "Ready", "Completed", "Failed"}) =>
        /\ pc = "done"
        /\ result = Err("Unknown task state")
        /\ lastReq # None /\ lastReq[1].op = "status" /\ lastReq[1].at = now
        /\ nStatus = nPending + 1
        /\ attempt = nPending
        /\ nRetrieve = 0
        /\ nFiles = 0

C14_Witness ==
    /\ EndedOnState("Cancelled")
    /\ result.error = "Unknown task state"
    /\ nPending = 1
    /\ now = 2
    /\ pc = "done"

\* C15: when the client id or the access key is absent, authenticate() fails
\* with the missing-credentials failure and sends nothing; a failure of a
\* request that was sent (credentials rejected, non-2xx answer, transport
\* failure) has its own message, different from it and from the other two.
C15_MissingCredentials ==
    authFailure # None =>
        LET f == authFailure[1]
        IN  /\ pc = "done"
            /\ nSubmit = 0 /\ nStatus = 0 /\ nRetrieve = 0
            /\ f.called = has_credentials
            /\ result.success = FALSE
            /\ result.error =
                  IF ~has_credentials THEN "Missing credentials"
                  ELSE IF f.resp = "rejected" THEN "Authentication failed - invalid credentials"
                  ELSE IF f.resp = "http" THEN "HTTP 500"
                  ELSE "Authentication error"
            /\ ~has_credentials => auth_token = None

C15_Witness ==
    /\ authFailure # None
    /\ ~has_credentials
    /\ ~authFailure[1].called
    /\ result = Err("Missing credentials")
    /\ pc = "done"

\* The entries of the retrieval log are in phase order: the shards in the
\* order of page_tokens, the top-level page of a shard before its chained
\* pages and retrieved once, the chained pages in the order of their depth.
ShardOrder ==
    /\ \A k \in 1..Len(log) :
          /\ log[k].shard \in 1..Len(page_tokens)
          /\ log[k].depth = 0 => log[k].tok = page_tokens[log[k].shard]
    /\ \A j, k \in 1..Len(log) :
          j < k => \/ log[j].shard < log[k].shard
                   \/ log[j].shard = log[k].shard /\ log[j].depth < log[k].depth

\* The number of submit, status and retrieve calls the run has made.
CallsMade == nSubmit + nStatus + nRetrieve

\* C17: within one run every step makes at most one call; the one submit call
\* comes before every status check, every status check before every
\* retrieval, and all pages of shard i are retrieved before the first page of
\* shard i+1.
C17_PhaseOrdered ==
    [][pc \notin {"idle", "done"} =>
          /\ CallsMade' <= CallsMade + 1
          /\ nSubmit' <= 1
          /\ nStatus > 0 => nSubmit' = nSubmit
          /\ nStatus' > nStatus => nSubmit = 1 /\ nRetrieve = 0 /\ ~ready
          /\ nRetrieve' > nRetrieve => nSubmit = 1 /\ nStatus > 0 /\ ready /\ nStatus' = nStatus
          /\ idx' >= idx
          /\ ShardOrder']_vars

C17_Witness ==
    /\ pc = "done"
    /\ nSubmit = 1
    /\ nStatus = 2
    /\ nRetrieve = 4
    /\ Len(log) = 4
    /\ log[1].shard = 1 /\ log[2].shard = 1 /\ log[2].depth = 1
    /\ log[3].shard = 2 /\ log[4].shard = 2

\* A request r that was sent carried a token together with an expiry.
SentPaired(r) == r # None => r[1].token # None /\ r[1].expires # None

OwnTask(f) ==
    /\ (f.lastReq # None /\ f.lastReq[1].op \in {"status", "retrieve"}) =>
          /\ f.issuedTask # None
          /\ f.lastReq[1].task = f.issuedTask
    /\ \A k \in 1..Len(f.log) : f.log[k].task = f.issuedTask
    /\ f.all_records = Flatten(f.log)
    /\ f.task_id = f.issuedTask

C16_LoopSurvivesEveryLine ==
    (lastLine # None /\ lastLine[1].text # "eof") =>
        /\ loop = "running"
        /\ (lastLine[1].json = "object" /\ lastLine[1].id = "7") =>
              /\ lastOut # None
              /\ lastOut[1].kind \in {"result", "error"}
              /\ lastOut[1].id = "7"

\* The lower-cased query holds the characters of w somewhere.
Mentions(w) ==
    \E a \in 0..Len(query) :
        /\ a + Len(w) <= Len(query)
        /\ \A k \in 1..Len(w) : Lower(query[a + k]) = w[k]

\* The query holds one of the phrases that ask for all events.
AsksForAllEvents ==
    Mentions(Str_all_security_events) \/ Mentions(Str_all_events) \/ Mentions(Str_security_events)

\* The severity clauses of the filter that was returned.
SeverityClauses ==
    LET IsSeverity(c) == c.field = "severity"
    IN  SelectSeq(translated[1].filter, IsSeverity)

\* The severity clauses the priority rule asks for.
SeverityByPriority ==
    IF Mentions(Str_critical) /\ Mentions(Str_high)
    THEN <<[field |-> "severity", value |-> <<"Critical", "High">>]>>
    ELSE IF Mentions(Str_critical) THEN <<[field |-> "severity", value |-> <<"Critical">>]>>
    ELSE IF Mentions(Str_high) THEN <<[field |-> "severity", value |-> <<"High">>]>>
    ELSE IF Mentions(Str_medium) THEN <<[field |-> "severity", value |-> <<"Medium">>]>>
    ELSE IF Mentions(Str_low) THEN <<[field |-> "severity", value |-> <<"Low">>]>>
    ELSE <<>>

\* C19 as claimed: for every query the filter has the severity clause of
\* the priority rule: the group of Critical and High when the query holds
\* both words, Critical alone when it holds "critical" and not "high", else
\* High, else Medium, else Low; and never more than one severity clause.
C19_SeverityByPriority ==
    translated # None =>
        /\ Len(SeverityClauses) <= 1
        /\ SeverityClauses = SeverityByPriority

\* C19 amended: the same for every query that holds none of the phrases "all
\* security events", "all events", "security events"; a query that holds one
\* of them gets no severity clause.
C19_SeverityByPriorityUnlessAll ==
    translated # None =>
        /\ Len(SeverityClauses) <= 1
        /\ ~AsksForAllEvents => SeverityClauses = SeverityByPriority
        /\ AsksForAllEvents => SeverityClauses = <<>>

C19_Witness ==
    /\ translated # None
    /\ ~AsksForAllEvents
    /\ query = Str_Critical \o <<" ", " ">> \o Str_high \o <<" ", " ">> \o Str_events
    /\ translated[1].filter = <<[field |-> "severity", value |-> <<"Critical", "High">>]>>

\* C20: for a query that holds one of the phrases asking for all events the
\* filter has no severity clause and no src or dst clause: it is the product
\* clause alone, with the product as the name returned, when a product of the
\* catalog is in the query, and '*' with the name "all_products" when none is.
C20_AllEventsShortCircuit ==
    (translated # None /\ AsksForAllEvents) =>
        LET app_name == AppName(LowerText(query))
            t == translated[1]
        IN  /\ \A k \in 1..Len(t.filter) : t.filter[k].field \notin {"severity", "src", "dst"}
            /\ app_name # None =>
                  /\ t.filter = <<[field |-> "ci_app_name", value |-> app_name[1]]>>
                  /\ t.app = app_name[1]
            /\ app_name = None =>
                  /\ t.filter = Star
                  /\ t.app = Str_all_products

C20_Witness ==
    /\ translated # None
    /\ query = Str_harmony \o <<" ">> \o Str_sase \o <<" ">> \o Str_security_events
    /\ translated[1].app = Str_harmony \o <<" ">> \o Str_sase
    /\ translated[1].filter = <<[field |-> "ci_app_name", value |-> translated[1].app]>>

\* The product names of the catalog, with one space between their words.
CatalogNames == {Join(app_patterns[k], <<" ">>) : k \in 1..Len(app_patterns)}

\* C23: when a product of the catalog is in the query, the name returned and
\* the value of the product clause are the product's words with one space
\* between them, whatever whitespace the query has between those words; so
\* queries that differ only in that whitespace get the same name and clause.
C23_ProductWhitespaceNormalized ==
    (translated # None /\ AppName(LowerText(query)) # None) =>
        /\ translated[1].app \in CatalogNames
        /\ translated[1].filter[1] = [field |-> "ci_app_name", value |-> translated[1].app]

\* The patterns that match the lower-cased timeframe text.
MatchingPatterns ==
    {k \in 1..Len(patterns) : SearchNumber(LowerText(timeframe_text), patterns[k]) # None}

\* The hours the text asks for: N of the unit of the first pattern that
\* matches, 24 when none matches.
RequestedHours ==
    IF MatchingPatterns = {} THEN 24
    ELSE LET p == patterns[Least(MatchingPatterns)]
         IN  ToInt(SearchNumber(LowerText(timeframe_text), p)[1]) * HoursOf(p.unit)

\* C21: for every timeframe text parse_timeframe returns a window whose
\* endTime is the clock of the call, to the second, with startTime <= endTime
\* and endTime - startTime equal to N hours, days or weeks for a text that
\* matches a pattern and to 24 hours for a text that matches none.
C21_WindowGap ==
    window # None =>
        /\ window[1].kind = "window"
        /\ window[1].endTime = Format(clock)
        /\ window[1].startTime.hours <= window[1].endTime.hours
        /\ window[1].startTime.seconds = window[1].endTime.seconds
        /\ window[1].endTime.hours - window[1].startTime.hours = RequestedHours

\* C22: parse_timeframe never fails: for every timeframe text, whatever its
\* number, it returns a window, and the window of a text that matches no
\* pattern is the last 24 hours.
C22_NeverFails ==
    window # None =>
        /\ window[1].kind = "window"
        /\ MatchingPatterns = {} =>
              window[1].endTime.hours - window[1].startTime.hours = 24

SubmitFailed == lastSubmit # None /\ lastSubmit[1] # "ok"

\* C25: when the token acquisition at the start of a run fails, the run's
\* result is that failure and no submit, status or retrieve call is made;
\* when the submit call fails, the run's result is that failure and no
\* status or retrieve call is made.
C25_AuthOrSubmitFailureAborts ==
    /\ authFailure # None =>
          /\ pc = "done"
          /\ ~result.success
          /\ result.error \in {"Missing credentials",
                               "Authentication failed - invalid credentials",
                               "HTTP 500", "Authentication error"}
          /\ nSubmit = 0 /\ nStatus = 0 /\ nRetrieve = 0 /\ nFiles = 0
          /\ lastReq = None
    /\ SubmitFailed =>
          /\ pc = "done"
          /\ ~result.success
          /\ result.error \in {"Search request failed", RateLimitMsg, "HTTP 500", "Search error"}
          /\ nSubmit = 1 /\ nStatus = 0 /\ nRetrieve = 0 /\ nFiles = 0
          /\ lastReq # None /\ lastReq[1].op = "submit"

C25_Witness ==
    /\ SubmitFailed
    /\ lastSubmit = Some("notsuccess")
    /\ result = Err("Search request failed")
    /\ pc = "done"
    /\ nSubmit = 1

\* The run ended on a status check that failed.
StatusCheckFailed == statusNote # None /\ statusNote[1].code \in StatusFailures

\* C26: a status check that fails (answer not 200, success false, transport
\* exception) ends the run at once with that failure: it is the last call of
\* the run, no sleep follows it, the attempt counter stays as it was and no
\* page is retrieved.
C26_StatusFailureAborts ==
    StatusCheckFailed =>
        /\ pc = "done"
        /\ ~result.success
        /\ result.error = (IF statusNote[1].code = "notsuccess" THEN "Status check failed"
                           ELSE IF statusNote[1].code = "429" THEN "HTTP 429"
                           ELSE IF statusNote[1].code = "http" THEN "HTTP 500"
                           ELSE "Status check error")
        /\ lastReq # None /\ lastReq[1].op = "status" /\ lastReq[1].at = now
        /\ nStatus = nPending + 1
        /\ attempt = nPending
        /\ nRetrieve = 0
        /\ nFiles = 0

C26_Witness ==
    /\ StatusCheckFailed
    /\ statusNote[1].code = "exception"
    /\ result = Err("Status check error")
    /\ nPending = 2
    /\ attempt = 2
    /\ now = 4
    /\ pc = "done"

\* C27: every get_all_logs invocation returns: it makes at most max_attempts
\* status checks and, once begun, it reaches its end whatever the remote API
\* answers, the chains of next page tokens being finite.
C27_RunReturns ==
    /\ [](nStatus <= max_attempts)
    /\ (pc \notin {"idle", "done"}) ~> (pc = "done")

C27_Witness ==
    /\ pc = "done"
    /\ nStatus = max_attempts
    /\ nPending = max_attempts
    /\ result = Err("Task timed out")
    /\ now = max_attempts * SleepSeconds

\* C28: the loop handles one request at a time.  A line is read only when no
\* request awaits its response and no get_all_logs invocation is in progress;
\* a response is printed for the request read last, which has an id, and
\* carries that id, so the responses come in the order of the requests; an
\* invocation in progress is that of the request read last and no other
\* invocation is suspended.
C28_OneRequestAtATime ==
    [][/\ nLines' # nLines =>
            /\ pending = None
            /\ pc \in {"idle", "done"}
       /\ printed' # printed =>
            /\ nLines' \in {nLines, nLines + 1}
            /\ printed' = Append(printed, nLines')
            /\ lastLine'[1].id \notin {"absent", "null"}
            /\ lastOut' # None
            /\ lastOut'[1].id = lastLine'[1].id
       /\ \A i, j \in DOMAIN printed' : i < j => printed'[i] < printed'[j]
       /\ pending' # None => pending' = Some(nLines')
       /\ pc' \notin {"idle", "done"} =>
            /\ pending' = Some(nLines')
            /\ parked' = IdleFrame]_vars

C28_Witness ==
    /\ nLines = 3
    /\ printed = <<1, 3>>
    /\ pending = None
    /\ CallsSearch(lastLine[1])
    /\ pc = "done"
    /\ result.success
    /\ nRetrieve >= 1
    /\ lastOut = Some(Out("result", "7", 0))

====
